---- MODULE Spec2Model ----
(***************************************************************************)
(* Ingestion pipelines of django-market-pulse:                             *)
(*   run_candles_from_json_pipeline  (mysite/ingestion/ingestions.py)      *)
(*   run_news_pipeline               (mysite/ingestion/ingestions.py)      *)
(*   news_analysis                   (mysite/ingestion/sentiments.py)      *)
(* over the tables of mysite/core/models.py, and, next to them, the other   *)
(* writers of these tables: mysite/api/views.py and mysite/core/admin.py.  *)
(*                                                                         *)
(* A table is a sequence of rows in insertion order.  A step of an         *)
(* importer holds at most one statement on the database: an iteration of   *)
(* the candle importer is the file read, one step per record (the company  *)
(* query of line 72), then the transaction; one of the news importer is    *)
(* the company lookup, then the rest up to results.append; the loop's back *)
(* edge is a further step that drops the iteration's locals.               *)
(***************************************************************************)
EXTENDS Integers, Sequences, FiniteSets, TLC

VARIABLES
    companies,   \* table companies: sequence of [id, ticker, is_active]
    backend,     \* database engine behind the ORM: "postgresql" or "sqlite"
    fs,          \* candle run: data_path, [is_dir, files: file name's ticker -> file]
    cargs,       \* candle run: [from_companies, tickers] the run is called with
    candles,     \* table market_candle: sequence of [company, ts, open]
    cpc,         \* candle run: "idle", "loop", "records" (in the loop of lines
                 \*   59-80), "tick" (result appended), "done" (returning),
                 \*   "raised"
    csymbols,    \* candle run: symbols (resolved ticker universe)
    cidx,        \* candle run: number of symbols the for loop has finished
    cresults,    \* candle run: results
    cstart,      \* candle run: table market_candle when the run was called
    clocal,      \* candle run: the iteration's locals: pos (records of data the
                 \*   loop of lines 59-80 has taken), to_create, failed (the
                 \*   except branch of lines 88-89 ran)
    ranBefore,   \* a run with these files and arguments has already returned
                 \*   and no other writer has changed a table since it started
    undisturbed, \* candle run: no other writer has changed a table since the
                 \*   run was called
    writes,      \* number of writes the API and the admin site have made
    env,         \* environment: which API keys are set
    articles,    \* table articles: sequence of [company, title, url, source,
                 \*   published, sentiment_label]
    npc,         \* news run: "idle", "loop", "fetch", "tick", "done" (returning),
                 \*   "raised"
    ncap,        \* news run: max_per_company
    nsymbols,    \* news run: symbols (resolved ticker universe)
    nidx,        \* news run: number of symbols the for loop has finished
    nresults,    \* news run: results, the ticker of each entry appended
    ncompany,    \* news run: id of the company line 149 found, 0 for none
    nlocal,      \* news run: the iteration's locals once it has appended its
                 \*   entry: raw_items after the limit, to_create, skipped,
                 \*   errors, the entry
    job,         \* what runs: "candles" / "news" (the importer next to the other
                 \*   writers), "candles alone" / "news alone" (the importer
                 \*   and nothing else), "sort", "classify"
    sraw,        \* sort and limit alone: raw_items as fetched
    scap,        \* sort and limit alone: max_per_company
    sout,        \* sort and limit alone: raw_items after lines 163-167, or Pending
    aargs,       \* news_analysis alone: [headline, has_key, reply]
    aout         \* news_analysis alone: what the call did, or NotCalled

cvars == <<fs, cargs, candles, cpc, csymbols, cidx, cresults, cstart, clocal, ranBefore, undisturbed>>
nvars == <<env, articles, npc, ncap, nsymbols, nidx, nresults, ncompany, nlocal>>
svars == <<sraw, scap, sout>>
avars == <<aargs, aout>>
vars == <<companies, backend, job, writes, cvars, nvars, svars, avars>>

----------------------------------------------------------------------------
(* Bounds of the model *)

\* longest list of records in a candle file
MaxRecs == 2
\* longest explicit tickers argument
MaxTickers == 2
\* longest list of items the news provider returns to a run
MaxItems == 2
\* longest list of items sorted and limited alone
MaxSortLen == 3
\* largest max_per_company tried alone
MaxCap == 3
\* most writes the API and the admin site make next to the importers
MaxWrites == 2

----------------------------------------------------------------------------
(* Generic helpers *)

SeqsUpTo(S, n) == UNION {[1..k -> S] : k \in 0..n}

RemoveAt(s, i) == [k \in 1..(Len(s) - 1) |-> IF k < i THEN s[k] ELSE s[k + 1]]

IsPrefix(s, t) == Len(s) <= Len(t) /\ SubSeq(t, 1, Len(s)) = s

Count(s, x) == Cardinality({k \in 1..Len(s) : s[k] = x})

Min(a, b) == IF a < b THEN a ELSE b

----------------------------------------------------------------------------
(* core/models.py: Company, and the ticker__iexact lookups *)

Symbols == {"AAPL", "aapl", "MSFT", "TSLA"}

\* str.lower() as the iexact lookup applies it to both sides
Lower(s) ==
    CASE s = "AAPL" -> "aapl"
      [] s = "MSFT" -> "msft"
      [] s = "TSLA" -> "tsla"
      [] OTHER -> s

\* Company rows; ticker is unique (case-sensitively), "MSFT" and "msft" both exist
CompanyRows ==
    << [id |-> 1, ticker |-> "AAPL", is_active |-> TRUE],
       [id |-> 2, ticker |-> "MSFT", is_active |-> TRUE],
       [id |-> 3, ticker |-> "msft", is_active |-> FALSE] >>

\* Company.objects.filter(ticker__iexact=sym): ids of the matching rows
IExactIds(table, sym) ==
    {table[i].id : i \in {k \in 1..Len(table) : Lower(table[k].ticker) = Lower(sym)}}

\* Company.objects.filter(is_active=True).values_list("ticker", flat=True)
RECURSIVE ActiveTickers(_, _)
ActiveTickers(table, i) ==
    IF i > Len(table) THEN <<>>
    ELSE (IF table[i].is_active THEN <<table[i].ticker>> ELSE <<>>)
         \o ActiveTickers(table, i + 1)

----------------------------------------------------------------------------
(* Candle files *)

\* the "time" value of a record: an ISO-8601 text of hour h with a zone
\* marker, or absent, or an empty text, or a text that is no ISO-8601 date
IsoTime(h, zone) == [tag |-> "iso", h |-> h, zone |-> zone]
AbsentTime == [tag |-> "absent", h |-> 0, zone |-> ""]
EmptyTime == [tag |-> "empty", h |-> 0, zone |-> ""]
JunkTime == [tag |-> "junk", h |-> 0, zone |-> ""]

\* a record of the JSON list: an object (dict) with its time and its price
\* fields ("num" or "null"), or a JSON value that is no object
CandleRec(time, open) == [kind |-> "dict", time |-> time, open |-> open]
NonDictRec == [kind |-> "other", time |-> AbsentTime, open |-> "null"]

Recs ==
    { CandleRec(IsoTime(1, "Z"), "num"),
      CandleRec(IsoTime(1, ""), "num"),
      CandleRec(IsoTime(3, "+01:00"), "num"),
      CandleRec(IsoTime(2, "Z"), "null"),
      CandleRec(AbsentTime, "num"),
      CandleRec(EmptyTime, "num"),
      CandleRec(JunkTime, "num"),
      NonDictRec }

\* a file of the directory: missing, not JSON, a JSON value that is no list,
\* or a list of records
MissingFile == [kind |-> "missing", data |-> <<>>]
InvalidFile == [kind |-> "invalid", data |-> <<>>]
ObjectFile == [kind |-> "object", data |-> <<>>]
ListFile(data) == [kind |-> "list", data |-> data]

Files == {MissingFile, InvalidFile, ObjectFile} \cup {ListFile(d) : d \in SeqsUpTo(Recs, MaxRecs)}

\* the files AAPL_1h_7d.json is one of while other writers are at work: no
\* file, the same instant twice, a null price, a timestamp that does not
\* parse
RunFiles ==
    { MissingFile,
      ListFile(<<CandleRec(IsoTime(1, "Z"), "num"), CandleRec(IsoTime(1, ""), "num")>>),
      ListFile(<<CandleRec(IsoTime(1, "Z"), "num"), CandleRec(IsoTime(2, "Z"), "null")>>),
      ListFile(<<CandleRec(IsoTime(1, "Z"), "num"), CandleRec(JunkTime, "num")>>) }

\* the tickers a file of the directory may be asked for: the symbols a
\* caller passes and the tickers of the companies
FileSymbols == Symbols \cup {"msft"}

\* the directory: AAPL_1h_7d.json varies, the other files are fixed
\* (TSLA has a file and no company, MSFT has a file and two companies)
Directory(f) ==
    [is_dir |-> TRUE,
     files |-> [s \in FileSymbols |->
        CASE s = "AAPL" -> f
          [] s = "msft" -> MissingFile
          [] s = "aapl" -> ListFile(<<CandleRec(IsoTime(1, "Z"), "num"),
                                      CandleRec(IsoTime(2, "Z"), "num")>>)
          [] s = "TSLA" -> ListFile(<<CandleRec(IsoTime(1, "Z"), "num")>>)
          [] OTHER -> ListFile(<<CandleRec(IsoTime(2, "Z"), "num")>>)]]

\* data_path names no folder
NoDirectory == [is_dir |-> FALSE, files |-> [s \in FileSymbols |-> MissingFile]]

----------------------------------------------------------------------------
(* run_candles_from_json_pipeline *)

\* offset in hours of a zone marker, after "Z" is rewritten to "+00:00" and
\* a naive datetime is given tzinfo UTC
ZoneOffset(zone) == IF zone = "+01:00" THEN 1 ELSE 0

\* datetime.fromisoformat(s) made aware: the instant (hours since the epoch)
ParseTs(time) == time.h - ZoneOffset(time.zone)

\* outcome of the loop over the records: it raised, or to_create
Raised == [raised |-> TRUE, to_create |-> <<>>]

\* an iteration of "for it in data" in which a record without a timestamp
\* raises
CandleRecordStrict(ctable, sym, rec, acc) ==
    IF rec.kind # "dict" THEN Raised
    ELSE IF rec.time.tag # "iso" THEN Raised
    ELSE IF Cardinality(IExactIds(ctable, sym)) # 1 THEN Raised
    ELSE [raised |-> FALSE,
          to_create |-> Append(acc, [company |-> CHOOSE c \in IExactIds(ctable, sym) : TRUE,
                                     ts |-> ParseTs(rec.time),
                                     open |-> rec.open])]

\* lines 59-80: one iteration of "for it in data", to_create so far in acc;
\* Company.objects.get(ticker__iexact=sym) of line 72 reads table companies
\* as it is at this record
CandleRecord(ctable, sym, rec, acc) ==
    IF rec.kind # "dict" THEN Raised
    ELSE IF rec.time.tag \in {"absent", "empty"} THEN [raised |-> FALSE, to_create |-> acc]
    ELSE IF rec.time.tag # "iso" THEN Raised
    ELSE IF Cardinality(IExactIds(ctable, sym)) # 1 THEN Raised
    ELSE [raised |-> FALSE,
          to_create |-> Append(acc, [company |-> CHOOSE c \in IExactIds(ctable, sym) : TRUE,
                                     ts |-> ParseTs(rec.time),
                                     open |-> rec.open])]

\* lines 58-80 when table companies does not change during the loop
RECURSIVE BuildCandles(_, _, _, _, _)
BuildCandlesNext(ctable, sym, data, i, r) ==
    IF r.raised THEN Raised ELSE BuildCandles(ctable, sym, data, i + 1, r.to_create)

BuildCandles(ctable, sym, data, i, acc) ==
    IF i > Len(data) THEN [raised |-> FALSE, to_create |-> acc]
    ELSE BuildCandlesNext(ctable, sym, data, i, CandleRecord(ctable, sym, data[i], acc))

\* unique_candle_company_ts: a row of the table has the object's key
CandleConflict(table, obj) ==
    \E k \in 1..Len(table) : table[k].company = obj.company /\ table[k].ts = obj.ts

\* an INSERT that ignores no conflict
RECURSIVE InsertCandlesAll(_, _, _)
InsertCandlesAll(table, objs, i) ==
    IF i > Len(objs) THEN table
    ELSE InsertCandlesAll(Append(table, objs[i]), objs, i + 1)

\* INSERT ... ON CONFLICT DO NOTHING of the objects in order: a row whose key
\* is taken is left out
RECURSIVE InsertCandles(_, _, _)
InsertCandles(table, objs, i) ==
    IF i > Len(objs) THEN table
    ELSE IF CandleConflict(table, objs[i]) THEN InsertCandles(table, objs, i + 1)
    ELSE InsertCandles(Append(table, objs[i]), objs, i + 1)

\* the objects a NOT NULL column (open, high, low, close, volume) rejects
NullCandles(objs) == {k \in 1..Len(objs) : objs[k].open = "null"}

RECURSIVE WithoutNullCandles(_, _)
WithoutNullCandles(objs, i) ==
    IF i > Len(objs) THEN <<>>
    ELSE (IF objs[i].open = "null" THEN <<>> ELSE <<objs[i]>>) \o WithoutNullCandles(objs, i + 1)

\* the table after the INSERT holds a row, added by it, of a company that
\* table companies no longer has (models.py line 39)
CandleOrphans(ctable, table, after) ==
    \E k \in 1..Len(after) :
        k > Len(table) /\ \A c \in 1..Len(ctable) : ctable[c].id # after[k].company

\* with transaction.atomic(): MarketCandle.objects.bulk_create(to_create,
\* ignore_conflicts=True): PostgreSQL raises IntegrityError on a NULL in a
\* NOT NULL column and the transaction rolls back; SQLite's INSERT OR IGNORE
\* leaves that row out.  A row inserted for a company deleted since line 72
\* read it violates the foreign key: IntegrityError, rolled back.  created is
\* the list passed in.
BulkCreateCandles(db, ctable, table, objs) ==
    IF \/ db = "postgresql" /\ NullCandles(objs) # {}
       \/ CandleOrphans(ctable, table, InsertCandles(table, WithoutNullCandles(objs, 1), 1))
    THEN [raised |-> TRUE, table |-> table, created |-> <<>>]
    ELSE [raised |-> FALSE,
          table |-> InsertCandles(table, WithoutNullCandles(objs, 1), 1),
          created |-> objs]

\* an except branch that puts the table back to what it was when the run
\* was called
CandleFailureRollsBack(table) == [table |-> cstart, inserted |-> 0, failed |-> TRUE]

\* the except branch (lines 88-89) and a missing file (lines 48-50)
CandleFailure(table) == [table |-> table, inserted |-> 0, failed |-> TRUE]
CandleNoFile(table) == [table |-> table, inserted |-> 0, failed |-> FALSE]

\* lines 82-86: the transaction, inserted = len(created)
PersistCandles(table, bc) ==
    IF bc.raised THEN CandleFailure(table)
    ELSE [table |-> bc.table, inserted |-> Len(bc.created), failed |-> FALSE]

\* lines 58-86 on the outcome of the loop over the records
BuiltCandles(db, ctable, table, built) ==
    IF built.raised THEN CandleFailure(table)
    ELSE PersistCandles(table, BulkCreateCandles(db, ctable, table, built.to_create))

\* lines 54-86 on the file read, when no other writer commits during them
CandleFile(db, ctable, table, sym, f) ==
    IF f.kind = "missing" THEN CandleNoFile(table)
    ELSE IF f.kind # "list" THEN CandleFailure(table)
    ELSE BuiltCandles(db, ctable, table, BuildCandles(ctable, sym, f.data, 1, <<>>))

\* one iteration of "for sym in symbols" (lines 46-91) when no other writer
\* commits during it: the table after it and the inserted count of the
\* result appended
CandleTicker(db, ctable, table, dir, sym) ==
    CandleFile(db, ctable, table, sym, dir[sym])

\* the tickers argument: None, or a list of symbols
NoTickers == <<>>
TickerLists == SeqsUpTo(Symbols, MaxTickers)

CandleArgs == [from_companies : BOOLEAN, tickers : TickerLists]

\* the arguments of the runs made while other writers are at work: the
\* active companies, no universe, a lower-case ticker before AAPL
RunArgs ==
    { [from_companies |-> TRUE, tickers |-> NoTickers],
      [from_companies |-> FALSE, tickers |-> NoTickers],
      [from_companies |-> FALSE, tickers |-> <<"aapl", "AAPL">>] }

\* the iteration's locals before line 52
NoCandleLocals == [pos |-> 0, to_create |-> <<>>, failed |-> FALSE]

InitCandles(files, args) ==
    /\ fs \in {NoDirectory} \cup {Directory(f) : f \in files}
    /\ cargs \in args
    /\ candles = <<>>
    /\ cpc = "idle"
    /\ csymbols = <<>>
    /\ cidx = 0
    /\ cresults = <<>>
    /\ cstart = <<>>
    /\ clocal = NoCandleLocals
    /\ ranBefore = FALSE
    /\ undisturbed = TRUE

\* lines 31-43: resolve tickers, check the folder; a raise ends the call
CandlesStart ==
    /\ cpc = "idle"
    /\ cstart' = candles
    /\ undisturbed' = TRUE
    /\ cidx' = 0
    /\ cresults' = <<>>
    /\ clocal' = NoCandleLocals
    /\ IF ~cargs.from_companies /\ cargs.tickers = NoTickers
       THEN cpc' = "raised" /\ csymbols' = <<>>
       ELSE /\ csymbols' = (IF cargs.from_companies THEN ActiveTickers(companies, 1)
                            ELSE cargs.tickers)
            /\ cpc' = (IF ~fs.is_dir THEN "raised" ELSE "loop")
    /\ UNCHANGED <<job, writes, svars, avars, nvars, companies, backend, fs, cargs, candles, ranBefore>>

\* results.append (lines 50, 91) of the ticker the loop is at
CandlesAppend(inserted) ==
    /\ cresults' = Append(cresults, [ticker |-> csymbols[cidx + 1], inserted |-> inserted])
    /\ cidx' = cidx + 1

\* the except branch of lines 88-89, then results.append
CandlesExcept ==
    \E r \in {CandleFailure(candles)} :
        /\ candles' = r.table
        /\ CandlesAppend(r.inserted)
        /\ clocal' = [clocal EXCEPT !.failed = r.failed]
        /\ cpc' = "tick"

\* an iteration start that appends no result for a missing file
CandlesFileNoEntry ==
    /\ cpc = "loop"
    /\ cidx < Len(csymbols)
    /\ \E f \in {fs.files[csymbols[cidx + 1]]} :
          IF f.kind = "missing"
          THEN /\ cidx' = cidx + 1
               /\ UNCHANGED <<candles, cresults, cpc, clocal>>
          ELSE IF f.kind # "list"
          THEN CandlesExcept
          ELSE /\ cpc' = "records"
               /\ clocal' = NoCandleLocals
               /\ UNCHANGED <<candles, cresults, cidx>>
    /\ UNCHANGED <<job, writes, svars, avars, nvars, companies, backend, fs, cargs, csymbols, cstart, ranBefore, undisturbed>>

\* lines 45-57: the iteration starts; a missing file is reported and the
\* loop continues, a file that is no JSON list raises, a list is looped over
CandlesFile ==
    /\ cpc = "loop"
    /\ cidx < Len(csymbols)
    /\ \E f \in {fs.files[csymbols[cidx + 1]]} :
          IF f.kind = "missing"
          THEN /\ CandlesAppend(CandleNoFile(candles).inserted)
               /\ UNCHANGED <<candles, cpc, clocal>>
          ELSE IF f.kind # "list"
          THEN CandlesExcept
          ELSE /\ cpc' = "records"
               /\ clocal' = NoCandleLocals
               /\ UNCHANGED <<candles, cresults, cidx>>
    /\ UNCHANGED <<job, writes, svars, avars, nvars, companies, backend, fs, cargs, csymbols, cstart, ranBefore, undisturbed>>

\* lines 59-80: one record of data; line 72 is a query of its own, so other
\* writers may commit between two records
CandlesRecord ==
    /\ cpc = "records"
    /\ clocal.pos < Len(fs.files[csymbols[cidx + 1]].data)
    /\ \E r \in {CandleRecord(companies, csymbols[cidx + 1],
                              fs.files[csymbols[cidx + 1]].data[clocal.pos + 1],
                              clocal.to_create)} :
          IF r.raised
          THEN CandlesExcept
          ELSE /\ clocal' = [clocal EXCEPT !.pos = @ + 1, !.to_create = r.to_create]
               /\ UNCHANGED <<candles, cresults, cidx, cpc>>
    /\ UNCHANGED <<job, writes, svars, avars, nvars, companies, backend, fs, cargs, csymbols, cstart, ranBefore, undisturbed>>

\* lines 82-91: the transaction, then results.append
CandlesPersist ==
    /\ cpc = "records"
    /\ clocal.pos = Len(fs.files[csymbols[cidx + 1]].data)
    /\ \E r \in {PersistCandles(candles, BulkCreateCandles(backend, companies, candles,
                                                          clocal.to_create))} :
          /\ candles' = r.table
          /\ CandlesAppend(r.inserted)
          /\ clocal' = [clocal EXCEPT !.failed = r.failed]
    /\ cpc' = "tick"
    /\ UNCHANGED <<job, writes, svars, avars, nvars, companies, backend, fs, cargs, csymbols, cstart, ranBefore, undisturbed>>

\* lines 93-94: the throttle and the loop's back edge
CandlesThrottle ==
    /\ cpc = "tick"
    /\ cpc' = "loop"
    /\ clocal' = NoCandleLocals
    /\ UNCHANGED <<job, writes, svars, avars, nvars, companies, backend, fs, cargs, candles, csymbols, cidx, cresults, cstart, ranBefore, undisturbed>>

\* line 96: the loop is over, return results
CandlesReturn ==
    /\ cpc = "loop"
    /\ cidx = Len(csymbols)
    /\ cpc' = "done"
    /\ UNCHANGED <<job, writes, svars, avars, nvars, companies, backend, fs, cargs, candles, csymbols, cidx, cresults, cstart, clocal, ranBefore, undisturbed>>

\* the caller has the results (or the exception) and may call again
CandlesAgain ==
    /\ cpc \in {"done", "raised"}
    /\ cpc' = "idle"
    /\ ranBefore' = (ranBefore \/ (cpc = "done" /\ undisturbed))
    /\ UNCHANGED <<job, writes, svars, avars, nvars, companies, backend, fs, cargs, candles, csymbols, cidx, cresults, cstart, clocal, undisturbed>>

----------------------------------------------------------------------------
(* ingestion/sentiments.py: news_analysis *)

None == "<None>"

\* a value of the provider's response is falsy: None or the empty text
Falsy(t) == t \in {None, ""}

\* cb.chat.completions.create(...): the call raises, or returns a response
\* with its choices (0 or 1), the fields of choices[0] and of the response,
\* and whether model_dump() raises
RaiseReply ==
    [kind |-> "raise", choices |-> 0, content |-> None, reasoning |-> None,
     text |-> None, output_text |-> None, dump_raises |-> FALSE]
ContentReply(content) ==
    [kind |-> "resp", choices |-> 1, content |-> content, reasoning |-> None,
     text |-> None, output_text |-> None, dump_raises |-> FALSE]

\* str.split(): the words of a text
Split(t) ==
    CASE t = "Positive" -> <<"Positive">>
      [] t = "negative." -> <<"negative.">>
      [] t = "NEUTRAL, mostly" -> <<"NEUTRAL,", "mostly">>
      [] t = "Good" -> <<"Good">>
      [] t = "The outlook is positive" -> <<"The", "outlook", "is", "positive">>
      [] t = "None" -> <<"None">>
      [] OTHER -> <<>>

\* str.strip(",. ") of a word
StripPunct(w) ==
    CASE w = "negative." -> "negative"
      [] w = "NEUTRAL," -> "NEUTRAL"
      [] OTHER -> w

\* str.title() of a word
Title(w) ==
    CASE w = "negative" -> "Negative"
      [] w = "NEUTRAL" -> "Neutral"
      [] w = "positive" -> "Positive"
      [] OTHER -> w

Labels == {"Positive", "Neutral", "Negative"}

\* headline.strip() of the headlines of the model
StripHeadline(h) == IF h = "   " THEN "" ELSE h

NaReturn(label, called) == [raised |-> FALSE, label |-> label, called |-> called]
NaRaise(called) == [raised |-> TRUE, label |-> None, called |-> called]

\* lines 50-53: the label of an extracted text (str(None) is "None")
LabelOf(text) ==
    LET words == Split(IF text = None THEN "None" ELSE text) IN
    IF words = <<>> THEN NaRaise(TRUE)
    ELSE LET label == Title(StripPunct(words[1]))
             norm == IF label = "Good" THEN "Positive" ELSE label
         IN NaReturn(IF norm \in Labels THEN norm ELSE "Neutral", TRUE)

\* news_analysis(headline) with CEREBRAS_API_KEY set or not (has_key) and
\* the provider answering with reply: the label returned, or the raise
news_analysis(headline, has_key, reply) ==
    IF Falsy(headline) \/ StripHeadline(headline) = "" THEN NaReturn("Neutral", FALSE)
    ELSE IF ~has_key THEN NaRaise(FALSE)
    ELSE IF reply.kind = "raise" THEN NaRaise(TRUE)
    ELSE LET t1 == IF reply.choices = 0 THEN None
                   ELSE IF reply.content # None THEN reply.content
                   ELSE reply.reasoning
         IN IF ~Falsy(t1) THEN LabelOf(t1)
            ELSE IF reply.choices = 0 THEN NaRaise(TRUE)
            ELSE LET t2 == IF ~Falsy(reply.text) THEN reply.text ELSE reply.output_text IN
                 IF ~Falsy(t2) THEN LabelOf(t2)
                 ELSE IF reply.dump_raises THEN NaReturn("Neutral", TRUE)
                 ELSE LabelOf(IF ~Falsy(reply.content) THEN reply.content
                              ELSE IF ~Falsy(reply.reasoning) THEN reply.reasoning
                              ELSE reply.text)

----------------------------------------------------------------------------
(* News provider items *)

\* the "datetime" / "published" value of an item: an integer, absent, or a
\* text that is no number
Epoch(v) == [t |-> "int", v |-> v]
NoEpoch == [t |-> "none", v |-> 0]
JunkEpoch == [t |-> "str", v |-> 0]

\* a DateTimeField value: an instant, or NULL
Dt(v) == [t |-> "dt", v |-> v]
NullDt == [t |-> "null", v |-> 0]

\* a headline that is no text (a number)
NotStr == "<int>"

NewsItem(url, datetime, headline, source) ==
    [kind |-> "dict", url |-> url, datetime |-> datetime, published |-> NoEpoch,
     headline |-> headline, source |-> source]

NewsItems ==
    { NewsItem("u1", Epoch(300), "h1", "Reuters"),
      NewsItem("u1", Epoch(100), "h2", None),
      NewsItem("u2", Epoch(200), "h3", "Reuters"),
      NewsItem(None, Epoch(400), "h1", "Reuters"),
      NewsItem("", Epoch(50), "h3", "Reuters"),
      NewsItem("u2", NoEpoch, "h2", "Reuters"),
      NewsItem("u3", Epoch(200), NotStr, "Reuters") }

\* what the sentiment provider answers for a headline
ProviderReply(headline) ==
    CASE headline = "h1" -> ContentReply("Positive")
      [] headline = "h3" -> ContentReply("negative.")
      [] OTHER -> RaiseReply

----------------------------------------------------------------------------
(* run_news_pipeline *)

\* _utc_from_epoch(seconds)
_utc_from_epoch(seconds) ==
    IF seconds.t = "int" THEN Dt(seconds.v) ELSE NullDt

\* a datetime / published value is truthy
TruthyEpoch(e) == e.t = "str" \/ (e.t = "int" /\ e.v # 0)

\* _key(it): int(datetime or published or 0), 0 when int() raises
_key(it) ==
    LET v == IF TruthyEpoch(it.datetime) THEN it.datetime
             ELSE IF TruthyEpoch(it.published) THEN it.published
             ELSE Epoch(0)
    IN IF v.t = "int" THEN v.v ELSE 0

\* list.sort(key=_key, reverse=True) is stable: x goes behind every item
\* whose key is not smaller
RECURSIVE InsertDesc(_, _)
InsertDesc(sorted, x) ==
    IF sorted = <<>> THEN <<x>>
    ELSE IF _key(sorted[1]) >= _key(x) THEN <<sorted[1]>> \o InsertDesc(Tail(sorted), x)
    ELSE <<x>> \o sorted

RECURSIVE SortDesc(_, _)
SortDesc(items, n) ==
    IF n = 0 THEN <<>> ELSE InsertDesc(SortDesc(items, n - 1), items[n])

\* max_per_company: None, an int, or a value that is no int (a float)
IntCap(v) == [t |-> "int", v |-> v]
NoCap == [t |-> "none", v |-> 0]
FloatCap(v) == [t |-> "float", v |-> v]

\* the hard limit applied before the sort
RetainLimitFirst(raw_items, cap) ==
    LET cut == IF cap.t = "int" /\ cap.v > 0
               THEN SubSeq(raw_items, 1, Min(cap.v, Len(raw_items)))
               ELSE raw_items
    IN SortDesc(cut, Len(cut))

\* lines 163-167: raw_items sorted by recency, then the hard limit
Retain(raw_items, cap) ==
    LET sorted == SortDesc(raw_items, Len(raw_items)) IN
    IF cap.t = "int" /\ cap.v > 0
    THEN SubSeq(sorted, 1, Min(cap.v, Len(sorted)))
    ELSE sorted

\* a loop that counts an item without a URL as an error
RECURSIVE MapItemsSkipIsError(_, _, _, _)
MapItemsSkipIsError(items, i, company, has_key) ==
    IF i > Len(items) THEN [to_create |-> <<>>, skipped |-> 0, errors |-> 0, analysed |-> 0]
    ELSE LET item == items[i]
             rest == MapItemsSkipIsError(items, i + 1, company, has_key)
         IN
         IF item.kind # "dict" THEN [rest EXCEPT !.errors = @ + 1]
         ELSE IF Falsy(item.url) THEN [rest EXCEPT !.errors = @ + 1]
         ELSE IF item.headline = NotStr THEN [rest EXCEPT !.errors = @ + 1]
         ELSE LET headline == IF Falsy(item.headline) THEN "" ELSE StripHeadline(item.headline)
                  na == news_analysis(headline, has_key, ProviderReply(headline))
                  obj == [company |-> company,
                          title |-> IF headline = "" THEN "(no title)" ELSE headline,
                          url |-> item.url,
                          source |-> IF Falsy(item.source) THEN "finnhub" ELSE item.source,
                          published |-> _utc_from_epoch(item.datetime),
                          sentiment_label |-> IF na.raised THEN "Neutral" ELSE na.label]
              IN [rest EXCEPT !.to_create = <<obj>> \o @, !.analysed = @ + 1]

\* a loop without the inner try: a classifier that raises drops the item
RECURSIVE MapItemsNoInnerTry(_, _, _, _)
MapItemsNoInnerTry(items, i, company, has_key) ==
    IF i > Len(items) THEN [to_create |-> <<>>, skipped |-> 0, errors |-> 0, analysed |-> 0]
    ELSE LET item == items[i]
             rest == MapItemsNoInnerTry(items, i + 1, company, has_key)
         IN
         IF item.kind # "dict" THEN [rest EXCEPT !.errors = @ + 1]
         ELSE IF Falsy(item.url) THEN [rest EXCEPT !.skipped = @ + 1]
         ELSE IF item.headline = NotStr THEN [rest EXCEPT !.errors = @ + 1]
         ELSE LET headline == IF Falsy(item.headline) THEN "" ELSE StripHeadline(item.headline)
                  na == news_analysis(headline, has_key, ProviderReply(headline))
                  obj == [company |-> company,
                          title |-> IF headline = "" THEN "(no title)" ELSE headline,
                          url |-> item.url,
                          source |-> IF Falsy(item.source) THEN "finnhub" ELSE item.source,
                          published |-> _utc_from_epoch(item.datetime),
                          sentiment_label |-> IF na.raised THEN "Neutral" ELSE na.label]
              IN IF na.raised THEN [rest EXCEPT !.errors = @ + 1, !.analysed = @ + 1]
                 ELSE [rest EXCEPT !.to_create = <<obj>> \o @, !.analysed = @ + 1]

\* a loop without the Neutral default: the label is what the classifier
\* returned, and none when it raised
RECURSIVE MapItemsNoDefault(_, _, _, _)
MapItemsNoDefault(items, i, company, has_key) ==
    IF i > Len(items) THEN [to_create |-> <<>>, skipped |-> 0, errors |-> 0, analysed |-> 0]
    ELSE LET item == items[i]
             rest == MapItemsNoDefault(items, i + 1, company, has_key)
         IN
         IF item.kind # "dict" THEN [rest EXCEPT !.errors = @ + 1]
         ELSE IF Falsy(item.url) THEN [rest EXCEPT !.skipped = @ + 1]
         ELSE IF item.headline = NotStr THEN [rest EXCEPT !.errors = @ + 1]
         ELSE LET headline == IF Falsy(item.headline) THEN "" ELSE StripHeadline(item.headline)
                  na == news_analysis(headline, has_key, ProviderReply(headline))
                  obj == [company |-> company,
                          title |-> IF headline = "" THEN "(no title)" ELSE headline,
                          url |-> item.url,
                          source |-> IF Falsy(item.source) THEN "finnhub" ELSE item.source,
                          published |-> _utc_from_epoch(item.datetime),
                          sentiment_label |-> na.label]
              IN [rest EXCEPT !.to_create = <<obj>> \o @, !.analysed = @ + 1]

\* a loop that drops an item without a URL and counts nothing for it
RECURSIVE MapItemsSkipUncounted(_, _, _, _)
MapItemsSkipUncounted(items, i, company, has_key) ==
    IF i > Len(items) THEN [to_create |-> <<>>, skipped |-> 0, errors |-> 0, analysed |-> 0]
    ELSE LET item == items[i]
             rest == MapItemsSkipUncounted(items, i + 1, company, has_key)
         IN
         IF item.kind # "dict" THEN [rest EXCEPT !.errors = @ + 1]
         ELSE IF Falsy(item.url) THEN rest
         ELSE IF item.headline = NotStr THEN [rest EXCEPT !.errors = @ + 1]
         ELSE LET headline == IF Falsy(item.headline) THEN "" ELSE StripHeadline(item.headline)
                  na == news_analysis(headline, has_key, ProviderReply(headline))
                  obj == [company |-> company,
                          title |-> IF headline = "" THEN "(no title)" ELSE headline,
                          url |-> item.url,
                          source |-> IF Falsy(item.source) THEN "finnhub" ELSE item.source,
                          published |-> _utc_from_epoch(item.datetime),
                          sentiment_label |-> IF na.raised THEN "Neutral" ELSE na.label]
              IN [rest EXCEPT !.to_create = <<obj>> \o @, !.analysed = @ + 1]

\* lines 171-201: the loop over the retained items
RECURSIVE MapItems(_, _, _, _)
MapItems(items, i, company, has_key) ==
    IF i > Len(items) THEN [to_create |-> <<>>, skipped |-> 0, errors |-> 0, analysed |-> 0]
    ELSE LET item == items[i]
             rest == MapItems(items, i + 1, company, has_key)
         IN
         IF item.kind # "dict" THEN [rest EXCEPT !.errors = @ + 1]
         ELSE IF Falsy(item.url) THEN [rest EXCEPT !.skipped = @ + 1]
         ELSE IF item.headline = NotStr THEN [rest EXCEPT !.errors = @ + 1]
         ELSE LET headline == IF Falsy(item.headline) THEN "" ELSE StripHeadline(item.headline)
                  na == news_analysis(headline, has_key, ProviderReply(headline))
                  obj == [company |-> company,
                          title |-> IF headline = "" THEN "(no title)" ELSE headline,
                          url |-> item.url,
                          source |-> IF Falsy(item.source) THEN "finnhub" ELSE item.source,
                          published |-> _utc_from_epoch(item.datetime),
                          sentiment_label |-> IF na.raised THEN "Neutral" ELSE na.label]
              IN [rest EXCEPT !.to_create = <<obj>> \o @, !.analysed = @ + 1]

\* Article.url is unique: a row of the table has the object's url
ArticleConflict(table, obj) == \E k \in 1..Len(table) : table[k].url = obj.url

\* an upsert: the row of a taken url is overwritten
RECURSIVE InsertArticlesUpsert(_, _, _)
InsertArticlesUpsert(table, objs, i) ==
    IF i > Len(objs) THEN table
    ELSE IF ArticleConflict(table, objs[i])
    THEN InsertArticlesUpsert([k \in 1..Len(table) |->
                                 IF table[k].url = objs[i].url THEN objs[i] ELSE table[k]],
                              objs, i + 1)
    ELSE InsertArticlesUpsert(Append(table, objs[i]), objs, i + 1)

\* INSERT ... ON CONFLICT DO NOTHING of the objects in order
RECURSIVE InsertArticles(_, _, _)
InsertArticles(table, objs, i) ==
    IF i > Len(objs) THEN table
    ELSE IF ArticleConflict(table, objs[i]) THEN InsertArticles(table, objs, i + 1)
    ELSE InsertArticles(Append(table, objs[i]), objs, i + 1)

RECURSIVE WithoutNullArticles(_, _)
WithoutNullArticles(objs, i) ==
    IF i > Len(objs) THEN <<>>
    ELSE (IF objs[i].published = NullDt THEN <<>> ELSE <<objs[i]>>)
         \o WithoutNullArticles(objs, i + 1)

\* with transaction.atomic(): Article.objects.bulk_create(to_create,
\* ignore_conflicts=True).  Article.published is NOT NULL: PostgreSQL raises
\* IntegrityError and the transaction rolls back, SQLite's INSERT OR IGNORE
\* leaves the row out.  A row inserted for a company that is no longer in
\* table companies violates the foreign key (models.py line 18): the
\* transaction raises IntegrityError and rolls back.  created is the list
\* passed in.
BulkCreateArticles(db, ctable, table, objs) ==
    IF \/ db = "postgresql" /\ \E k \in 1..Len(objs) : objs[k].published = NullDt
       \/ \E k \in 1..Len(InsertArticles(table, WithoutNullArticles(objs, 1), 1)) :
             /\ k > Len(table)
             /\ \A c \in 1..Len(ctable) :
                   ctable[c].id # InsertArticles(table, WithoutNullArticles(objs, 1), 1)[k].company
    THEN [raised |-> TRUE, table |-> table, created |-> <<>>]
    ELSE [raised |-> FALSE,
          table |-> InsertArticles(table, WithoutNullArticles(objs, 1), 1),
          created |-> objs]

\* client.company_news(symbol, ...): the call raises, returns None, or
\* returns a list of items
FetchRaise == [kind |-> "raise", items |-> <<>>]
FetchNone == [kind |-> "none", items |-> <<>>]
FetchList(items) == [kind |-> "list", items |-> items]

NoEntry == [ticker |-> None, inserted |-> 0, skipped |-> 0, errors |-> 0]

NoMapped == [to_create |-> <<>>, skipped |-> 0, errors |-> 0, analysed |-> 0]

\* an except branch that reports the counts accumulated for the items
TickerFailedKeepsCounts(table, symbol, fetched, retained, m) ==
    [failed |-> TRUE, table |-> table, fetched |-> fetched,
     retained |-> retained, to_create |-> m.to_create,
     skipped |-> m.skipped, errors |-> m.errors, analysed |-> m.analysed,
     entry |-> [ticker |-> symbol, inserted |-> 0, skipped |-> m.skipped,
                errors |-> m.errors + 1]]

\* the except branch of the per-ticker block (lines 219-221)
TickerFailed(table, symbol, fetched, retained, m) ==
    [failed |-> TRUE, table |-> table, fetched |-> fetched,
     retained |-> retained, to_create |-> m.to_create,
     skipped |-> m.skipped, errors |-> m.errors, analysed |-> m.analysed,
     entry |-> [ticker |-> symbol, inserted |-> 0, skipped |-> 0, errors |-> 1]]

\* lines 203-217: the transaction, then results.append
PersistNews(db, ctable, table, symbol, retained, m) ==
    LET bc == BulkCreateArticles(db, ctable, table, m.to_create) IN
    IF bc.raised THEN TickerFailed(table, symbol, TRUE, retained, m)
    ELSE [failed |-> FALSE, table |-> bc.table, fetched |-> TRUE,
          retained |-> retained, to_create |-> m.to_create,
          skipped |-> m.skipped, errors |-> m.errors, analysed |-> m.analysed,
          entry |-> [ticker |-> symbol, inserted |-> Len(bc.created),
                     skipped |-> m.skipped, errors |-> m.errors]]

\* lines 169-217: map the retained items, persist
MapAndPersist(db, has_key, ctable, table, symbol, company, retained) ==
    PersistNews(db, ctable, table, symbol, retained, MapItems(retained, 1, company, has_key))

\* line 149: Company.objects.filter(ticker__iexact=symbol).first(), the id
\* of the company found (the lowest), 0 for None
CompanyLookup(ctable, symbol) ==
    IF IExactIds(ctable, symbol) = {} THEN 0
    ELSE CHOOSE c \in IExactIds(ctable, symbol) : \A d \in IExactIds(ctable, symbol) : c <= d

\* lines 150-221 of one iteration of "for symbol in symbols", company being
\* what line 149 found and ctable the companies when the batch is stored
NewsTicker(db, has_key, ctable, table, symbol, cap, fetch, company) ==
    IF company = 0 THEN TickerFailed(table, symbol, FALSE, <<>>, NoMapped)
    ELSE IF fetch.kind = "raise" THEN TickerFailed(table, symbol, TRUE, <<>>, NoMapped)
    ELSE IF \E k \in 1..Len(fetch.items) : fetch.items[k].kind # "dict"
    THEN TickerFailed(table, symbol, TRUE, <<>>, NoMapped)
    ELSE MapAndPersist(db, has_key, ctable, table, symbol, company,
                       Retain(fetch.items, cap))

\* _get_finnhub(): raises without FINNHUB_API_KEY
_get_finnhub(e) == [raised |-> ~e.FINNHUB_API_KEY]

\* _resolve_tickers(tickers, from_companies)
_resolve_tickers(ctable, tickers, from_companies) ==
    IF from_companies THEN [raised |-> FALSE, symbols |-> ActiveTickers(ctable, 1)]
    ELSE IF tickers = NoTickers THEN [raised |-> TRUE, symbols |-> <<>>]
    ELSE [raised |-> FALSE, symbols |-> tickers]

NoLocals ==
    [failed |-> FALSE, fetched |-> FALSE, retained |-> <<>>, to_create |-> <<>>,
     skipped |-> 0, errors |-> 0, analysed |-> 0, entry |-> NoEntry]

NewsSymbols == {"MSFT", "TSLA"}
NewsTickerLists == SeqsUpTo(NewsSymbols, MaxTickers)

\* the tickers arguments of the runs made while other writers are at work
RunTickerLists == {NoTickers, <<"TSLA", "MSFT">>}

\* the tickers arguments the model tries
TickerArgs(j) == IF j = "news" THEN RunTickerLists ELSE NewsTickerLists
Caps == {NoCap, IntCap(1)}

\* the max_articles_per_ticker of the runs made while other writers are at
\* work, and the ones the model tries
RunCaps == {NoCap}
CapArgs(j) == IF j = "news" THEN RunCaps ELSE Caps
Fetches == {FetchRaise, FetchNone} \cup {FetchList(l) : l \in SeqsUpTo(NewsItems, MaxItems)}

\* what the provider answers while other writers are at work: a raise,
\* None, two items to store, a classifier failure with an item without url,
\* one url twice
RunFetches ==
    { FetchRaise, FetchNone,
      FetchList(<<NewsItem("u1", Epoch(300), "h1", "Reuters"),
                  NewsItem("u2", Epoch(200), "h3", "Reuters")>>),
      FetchList(<<NewsItem("u1", Epoch(100), "h2", None),
                  NewsItem(None, Epoch(400), "h1", "Reuters")>>),
      FetchList(<<NewsItem("u1", Epoch(300), "h1", "Reuters"),
                  NewsItem("u1", Epoch(100), "h2", None)>>) }

\* the answers of client.company_news the model tries
ProviderAnswers(j) == IF j = "news" THEN RunFetches ELSE Fetches

InitNews ==
    /\ env \in [FINNHUB_API_KEY : BOOLEAN, CEREBRAS_API_KEY : BOOLEAN]
    /\ articles = <<>>
    /\ npc = "idle"
    /\ ncap = NoCap
    /\ nsymbols = <<>>
    /\ nidx = 0
    /\ nresults = <<>>
    /\ ncompany = 0
    /\ nlocal = NoLocals

\* lines 136-144: the client, the tickers; a raise ends the call
NewsStart ==
    /\ npc = "idle"
    /\ \E tickers \in TickerArgs(job), from_companies \in BOOLEAN, cap \in CapArgs(job) :
         LET r == _resolve_tickers(companies, tickers, from_companies) IN
         /\ ncap' = cap
         /\ IF _get_finnhub(env).raised \/ r.raised
            THEN npc' = "raised" /\ nsymbols' = <<>>
            ELSE npc' = "loop" /\ nsymbols' = r.symbols
    /\ nidx' = 0
    /\ nresults' = <<>>
    /\ nlocal' = NoLocals
    /\ UNCHANGED <<job, writes, svars, avars, companies, backend, env, articles, ncompany, cvars>>

\* lines 146-149: the iteration starts and looks its company up
NewsLookup ==
    /\ npc = "loop"
    /\ nidx < Len(nsymbols)
    /\ ncompany' = CompanyLookup(companies, nsymbols[nidx + 1])
    /\ npc' = "fetch"
    /\ UNCHANGED <<job, writes, svars, avars, companies, backend, env, articles, ncap, nsymbols, nidx, nresults, nlocal, cvars>>

\* lines 150-221: the rest of the iteration, up to results.append; the
\* provider calls read no table, the batch is stored in one transaction
NewsTickerStep ==
    /\ npc = "fetch"
    /\ ncompany' = 0
    /\ \E fetch \in ProviderAnswers(job) :
         \E r \in {NewsTicker(backend, env.CEREBRAS_API_KEY, companies, articles,
                             nsymbols[nidx + 1], ncap, fetch, ncompany)} :
            /\ articles' = r.table
            /\ nresults' = Append(nresults, r.entry.ticker)
            /\ nlocal' = [failed |-> r.failed, fetched |-> r.fetched,
                          retained |-> r.retained, to_create |-> r.to_create,
                          skipped |-> r.skipped, errors |-> r.errors,
                          analysed |-> r.analysed, entry |-> r.entry]
    /\ npc' = "tick"
    /\ UNCHANGED <<job, writes, svars, avars, companies, backend, env, ncap, nsymbols, nidx, cvars>>

\* lines 223-224: the throttle and the loop's back edge
NewsThrottle ==
    /\ npc = "tick"
    /\ npc' = "loop"
    /\ nidx' = nidx + 1
    /\ nlocal' = NoLocals
    /\ UNCHANGED <<job, writes, svars, avars, companies, backend, env, articles, ncap, nsymbols, nresults, ncompany, cvars>>

\* line 226: return results
NewsReturn ==
    /\ npc = "loop"
    /\ nidx = Len(nsymbols)
    /\ npc' = "done"
    /\ UNCHANGED <<job, writes, svars, avars, companies, backend, env, articles, ncap, nsymbols, nidx, nresults, nlocal, ncompany, cvars>>

\* the caller has the results (or the exception) and may call again
NewsAgain ==
    /\ npc \in {"done", "raised"}
    /\ npc' = "idle"
    /\ ncap' = NoCap
    /\ nsymbols' = <<>>
    /\ nidx' = 0
    /\ nresults' = <<>>
    /\ UNCHANGED <<job, writes, svars, avars, companies, backend, env, articles, nlocal, ncompany, cvars>>

----------------------------------------------------------------------------
(* api/views.py, core/admin.py: the other writers of the tables.  The
   ModelViewSets update and destroy rows (their create cannot store a candle
   or an Article: company is read-only in the serializers and NOT NULL in
   the tables); the admin site adds, changes and deletes rows. *)

\* a write is made: it counts, and the run of the candle importer in
\* progress or last returned is no longer alone with the tables
Wrote ==
    /\ writes < MaxWrites
    /\ writes' = writes + 1
    /\ ranBefore' = FALSE
    /\ undisturbed' = FALSE
    /\ UNCHANGED <<job, backend, svars, avars, fs, cargs, cpc, csymbols, cidx, cresults,
                   cstart, clocal, env, npc, ncap, nsymbols, nidx, nresults, ncompany, nlocal>>

\* the rows of a table that do not belong to a company
RECURSIVE WithoutCompany(_, _, _)
WithoutCompany(table, id, i) ==
    IF i > Len(table) THEN <<>>
    ELSE (IF table[i].company = id THEN <<>> ELSE <<table[i]>>)
         \o WithoutCompany(table, id, i + 1)

\* the timestamp the other writers give a candle
WriterTs == {2}

\* MarketCandleViewSet.destroy, MarketAdmin delete: a row is deleted
DestroyCandle ==
    /\ \E k \in 1..Len(candles) : candles' = RemoveAt(candles, k)
    /\ UNCHANGED <<companies, articles>>
    /\ Wrote

\* MarketCandleViewSet.update / partial_update, MarketAdmin change: the ts
\* of a row is changed; unique_candle_company_ts refuses a key that is taken
UpdateCandle ==
    /\ \E k \in 1..Len(candles), t \in WriterTs :
          /\ t # candles[k].ts
          /\ ~CandleConflict(candles, [candles[k] EXCEPT !.ts = t])
          /\ candles' = [candles EXCEPT ![k].ts = t]
    /\ UNCHANGED <<companies, articles>>
    /\ Wrote

\* MarketAdmin add: a row is added for a company of the table
AddCandle ==
    /\ \E c \in 1..Len(companies), t \in WriterTs :
          /\ ~CandleConflict(candles, [company |-> companies[c].id, ts |-> t, open |-> "num"])
          /\ candles' = Append(candles, [company |-> companies[c].id, ts |-> t, open |-> "num"])
    /\ UNCHANGED <<companies, articles>>
    /\ Wrote

\* ArticleViewSet.destroy, ArticleAdmin delete: a row is deleted
DestroyArticle ==
    /\ \E k \in 1..Len(articles) : articles' = RemoveAt(articles, k)
    /\ UNCHANGED <<companies, candles>>
    /\ Wrote

\* ArticleViewSet.update / partial_update, ArticleAdmin change: title and
\* sentiment_label of a row are rewritten (any text of at most 10
\* characters is a label the table takes)
UpdateArticle ==
    /\ \E k \in 1..Len(articles) :
          /\ articles[k].title # "edited"
          /\ articles' = [articles EXCEPT ![k].title = "edited",
                                          ![k].sentiment_label = "Bullish"]
    /\ UNCHANGED <<companies, candles>>
    /\ Wrote

\* ArticleAdmin add: a row is added for a company of the table; Article.url
\* is unique
AddArticle ==
    /\ \E c \in 1..Len(companies) :
          LET obj == [company |-> companies[c].id, title |-> "manual", url |-> "u1",
                      source |-> "manual", published |-> Dt(150),
                      sentiment_label |-> "Positive"]
          IN /\ ~ArticleConflict(articles, obj)
             /\ articles' = Append(articles, obj)
    /\ UNCHANGED <<companies, candles>>
    /\ Wrote

\* CompanyViewSet.destroy, CompanyAdmin delete: the company is deleted and,
\* on_delete=CASCADE, its candles and its Articles with it
DestroyCompany ==
    /\ \E c \in 1..Len(companies) :
          /\ companies' = RemoveAt(companies, c)
          /\ candles' = WithoutCompany(candles, companies[c].id, 1)
          /\ articles' = WithoutCompany(articles, companies[c].id, 1)
    /\ Wrote

\* the tickers the other writers give a company
WriterTickers == {"AAPL", "TSLA"}

\* CompanyViewSet.update / partial_update, CompanyAdmin change: is_active of
\* a company is switched, or the company is given another ticker;
\* Company.ticker is unique
UpdateCompany ==
    /\ \E c \in 1..Len(companies) :
          \/ companies' = [companies EXCEPT ![c].is_active = ~@]
          \/ \E t \in WriterTickers :
                /\ \A d \in 1..Len(companies) : companies[d].ticker # t
                /\ companies' = [companies EXCEPT ![c].ticker = t]
    /\ UNCHANGED <<candles, articles>>
    /\ Wrote

\* CompanyViewSet.create, CompanyAdmin add: company TSLA is created;
\* Company.ticker is unique
CreateCompany ==
    /\ \A c \in 1..Len(companies) : companies[c].ticker # "TSLA" /\ companies[c].id # 4
    /\ companies' = Append(companies, [id |-> 4, ticker |-> "TSLA", is_active |-> TRUE])
    /\ UNCHANGED <<candles, articles>>
    /\ Wrote

CompanyWriters == DestroyCompany \/ UpdateCompany \/ CreateCompany

CandleWriters == DestroyCandle \/ UpdateCandle \/ AddCandle

ArticleWriters == DestroyArticle \/ UpdateArticle \/ AddArticle

----------------------------------------------------------------------------
(* Lines 156-167 alone: the sort by recency and the hard limit *)

SortItems ==
    { NewsItem("u1", Epoch(100), "h1", "Reuters"),
      NewsItem("u2", Epoch(300), "h1", "Reuters"),
      NewsItem("u3", Epoch(200), "h1", "Reuters"),
      NewsItem("u4", Epoch(200), "h2", "Reuters"),
      NewsItem("u5", NoEpoch, "h1", "Reuters"),
      NewsItem("u6", JunkEpoch, "h1", "Reuters"),
      [NewsItem("u7", Epoch(0), "h1", "Reuters") EXCEPT !.published = Epoch(250)] }

SortCaps == {NoCap, FloatCap(1)} \cup {IntCap(v) : v \in (0 - 1)..MaxCap}

Pending == <<[kind |-> "pending"]>>

InitSort ==
    /\ sraw \in SeqsUpTo(SortItems, MaxSortLen)
    /\ scap \in SortCaps
    /\ sout = Pending

SortAndLimit ==
    /\ sout = Pending
    /\ sout' = Retain(sraw, scap)
    /\ UNCHANGED <<companies, backend, job, writes, cvars, nvars, avars, sraw, scap>>

----------------------------------------------------------------------------
(* news_analysis alone: one call on a headline and a provider response *)

\* the texts a field of the response holds
ReplyTexts ==
    {"", "   ", "Positive", "negative.", "NEUTRAL, mostly", "Good",
     "The outlook is positive"}

\* a response with one choice
Reply(content, reasoning, text, output_text, dump_raises) ==
    [kind |-> "resp", choices |-> 1, content |-> content, reasoning |-> reasoning,
     text |-> text, output_text |-> output_text, dump_raises |-> dump_raises]

\* a response whose choices list is empty
EmptyChoicesReply(output_text) ==
    [kind |-> "resp", choices |-> 0, content |-> None, reasoning |-> None,
     text |-> None, output_text |-> output_text, dump_raises |-> FALSE]

Replies ==
    {RaiseReply}
    \cup {EmptyChoicesReply(o) : o \in {None, "Positive"}}
    \cup {Reply(c, r, t, o, d) : c \in ReplyTexts \cup {None},
                                  r \in ReplyTexts \cup {None},
                                  t \in {None, "", "   ", "negative."},
                                  o \in {None, "Positive"},
                                  d \in BOOLEAN}

\* the headline argument: None, empty, blank, or a text
Headlines == {None, "", "   ", "h1"}

NoCall == [headline |-> None, has_key |-> FALSE, reply |-> RaiseReply]
NotCalled == [raised |-> FALSE, label |-> "<pending>", called |-> FALSE]

InitClassify ==
    /\ aargs \in [headline : Headlines, has_key : BOOLEAN, reply : Replies]
    /\ aout = NotCalled

Classify ==
    /\ aout = NotCalled
    /\ aout' = news_analysis(aargs.headline, aargs.has_key, aargs.reply)
    /\ UNCHANGED <<companies, backend, job, writes, cvars, nvars, svars, aargs>>

----------------------------------------------------------------------------
(* Specifications *)

\* the tables and the engine before anything runs
Idle ==
    /\ companies = CompanyRows
    /\ writes = 0
    /\ backend \in {"postgresql", "sqlite"}

\* no candle run
NoCandleRun ==
    /\ fs = NoDirectory
    /\ cargs = [from_companies |-> TRUE, tickers |-> NoTickers]
    /\ candles = <<>> /\ cpc = "idle" /\ csymbols = <<>> /\ cidx = 0
    /\ cresults = <<>> /\ cstart = <<>> /\ clocal = NoCandleLocals
    /\ ranBefore = FALSE /\ undisturbed = TRUE

\* no news run
NoNewsRun ==
    /\ env = [FINNHUB_API_KEY |-> TRUE, CEREBRAS_API_KEY |-> TRUE]
    /\ articles = <<>> /\ npc = "idle" /\ ncap = NoCap /\ nsymbols = <<>>
    /\ nidx = 0 /\ nresults = <<>> /\ ncompany = 0 /\ nlocal = NoLocals

NoSort == sraw = <<>> /\ scap = NoCap /\ sout = Pending

NoClassify == aargs = NoCall /\ aout = NotCalled

\* the candle importer, called again and again with the same arguments,
\* next to the API and the admin site
InitC ==
    /\ Idle /\ job = "candles"
    /\ InitCandles(RunFiles, RunArgs)
    /\ NoNewsRun /\ NoSort /\ NoClassify

\* the candle importer alone, over every file
InitCA ==
    /\ Idle /\ job = "candles alone"
    /\ InitCandles(Files, CandleArgs)
    /\ NoNewsRun /\ NoSort /\ NoClassify

\* the news importer, called again and again, next to the API and the
\* admin site
InitN ==
    /\ Idle /\ job = "news"
    /\ InitNews
    /\ NoCandleRun /\ NoSort /\ NoClassify

\* the news importer alone, over every answer of the provider
InitNA ==
    /\ Idle /\ job = "news alone"
    /\ InitNews
    /\ NoCandleRun /\ NoSort /\ NoClassify

\* the sort and the limit of run_news_pipeline on a list of items
InitS ==
    /\ companies = CompanyRows /\ writes = 0 /\ backend = "sqlite"
    /\ job = "sort"
    /\ InitSort
    /\ NoCandleRun /\ NoNewsRun /\ NoClassify

\* news_analysis on a headline, with the classifier's key set or not and
\* the provider's answer
InitA ==
    /\ companies = CompanyRows /\ writes = 0 /\ backend = "sqlite"
    /\ job = "classify"
    /\ InitClassify
    /\ NoCandleRun /\ NoNewsRun /\ NoSort

Init == InitC \/ InitN

CandleRun ==
    \/ CandlesStart \/ CandlesFile \/ CandlesRecord \/ CandlesPersist
    \/ CandlesThrottle \/ CandlesReturn \/ CandlesAgain

NewsRun ==
    NewsStart \/ NewsLookup \/ NewsTickerStep \/ NewsThrottle \/ NewsReturn \/ NewsAgain

NextCandles == CandleRun \/ CandleWriters \/ CompanyWriters

NextNews == NewsRun \/ ArticleWriters \/ CompanyWriters

Next == (job = "candles" /\ NextCandles) \/ (job = "news" /\ NextNews)

SpecCandles == InitC /\ [][NextCandles]_vars

SpecCandlesAlone == InitCA /\ [][CandleRun]_vars

SpecNews == InitN /\ [][NextNews]_vars

SpecNewsAlone == InitNA /\ [][NewsRun]_vars

SpecSort == InitS /\ [][SortAndLimit]_vars

SpecClassify == InitA /\ [][Classify]_vars

\* either importer, next to the API and the admin site
Spec == Init /\ [][Next]_vars

----------------------------------------------------------------------------
(* Properties *)

UniqueCandleKeys(table) ==
    \A i, j \in 1..Len(table) :
        (table[i].company = table[j].company /\ table[i].ts = table[j].ts) => i = j

\* C1: the table market_candle never holds two rows with the same
\* (company, ts), whoever writes it, and once a run over these files and
\* this ticker universe has returned, no step of a further run over them,
\* made before any other writer acts, changes the table: the second run adds
\* no row and leaves the rows of the first.
C1_CandleIdempotence ==
    [][ /\ UniqueCandleKeys(candles')
        /\ (ranBefore /\ writes' = writes) => candles' = candles ]_vars

\* a second run has returned over a file of AAPL that holds the same instant
\* twice (once with "Z", once naive) and whose rows are stored
C1_Witness ==
    /\ ranBefore /\ cpc = "done"
    /\ \E i \in 1..Len(csymbols) : csymbols[i] = "AAPL" /\ cresults[i].inserted = 2
    /\ fs.files["AAPL"].data = <<CandleRec(IsoTime(1, "Z"), "num"), CandleRec(IsoTime(1, ""), "num")>>
    /\ Len(candles) = 1

UrlRows(table, u) == {k \in 1..Len(table) : table[k].url = u}

\* C2: at every point of every sequence of runs no url is stored in two
\* Article rows, whatever earlier runs, earlier tickers of the run or the
\* batch itself hold; and when a ticker has been processed, the url of every
\* retained item that has a url and a text headline is stored in exactly one
\* row.
C2_NewsIdempotence ==
    /\ \A k \in 1..Len(articles) : Cardinality(UrlRows(articles, articles[k].url)) = 1
    /\ npc = "tick" =>
          \A k \in 1..Len(nlocal.retained) :
              (~Falsy(nlocal.retained[k].url) /\ nlocal.retained[k].headline # NotStr) =>
                  Cardinality(UrlRows(articles, nlocal.retained[k].url)) = 1

\* C3: the inserted count an importer reports for a ticker is the number of
\* rows the ticker's batch added to the table.
C3_InsertedIsRowsAdded ==
    [][ /\ (job = "candles" /\ cidx' = cidx + 1) =>
              cresults'[cidx'].inserted = Len(candles') - Len(candles)
        /\ (job = "news" /\ npc = "fetch" /\ npc' = "tick") =>
              nlocal'.entry.inserted = Len(articles') - Len(articles) ]_vars

\* an item of the news provider the loop of lines 171-201 maps without
\* skipping it or counting an error, and the store takes
WellFormed(item) ==
    /\ item.kind = "dict" /\ ~Falsy(item.url)
    /\ item.headline # NotStr /\ item.datetime.t = "int"

\* C4: no step of the importer changes or removes an Article row that
\* exists (it only adds rows at the end of the table), and a ticker whose
\* retained items are well formed and have their urls stored already adds
\* no row and is reported without failure and without error, whatever the
\* company, the title and the label of the rows that hold the urls.
C4_ExistingArticlesUnchanged ==
    [][ /\ npc' # npc => IsPrefix(articles, articles')
        /\ (npc = "fetch" /\ npc' = "tick" /\ nlocal'.retained # <<>>
            /\ \A k \in 1..Len(nlocal'.retained) :
                  /\ WellFormed(nlocal'.retained[k])
                  /\ UrlRows(articles, nlocal'.retained[k].url) # {})
           => (~nlocal'.failed /\ nlocal'.entry.errors = 0 /\ articles' = articles) ]_vars

\* a committed batch, reported without error, with an object whose url is
\* stored for another company with another title and another label
C4_Witness ==
    /\ npc = "tick" /\ ~nlocal.failed /\ nlocal.entry.errors = 0
    /\ \E k \in 1..Len(nlocal.to_create), r \in 1..Len(articles) :
          /\ articles[r].url = nlocal.to_create[k].url
          /\ articles[r].company # nlocal.to_create[k].company
          /\ articles[r].title # nlocal.to_create[k].title
          /\ articles[r].sentiment_label # nlocal.to_create[k].sentiment_label

\* C5: once a run is in its loop no step, of the run or of another writer,
\* makes it raise to the caller: it goes on or returns; its results hold one
\* entry per ticker finished, and when it returns the entries are those of
\* the ticker universe it resolved, in its order.
C5_OneEntryPerTicker ==
    [][ /\ cpc = "loop" => cpc' \in {"loop", "records", "tick", "done"}
        /\ cpc = "records" => cpc' \in {"records", "tick"}
        /\ cpc = "tick" => cpc' \in {"tick", "loop"}
        /\ npc = "loop" => npc' \in {"loop", "fetch", "done"}
        /\ npc = "fetch" => npc' \in {"fetch", "tick"}
        /\ npc = "tick" => npc' \in {"tick", "loop"}
        /\ cpc' \in {"loop", "records", "tick", "done"} =>
              /\ Len(cresults') = cidx'
              /\ \A i \in 1..cidx' : cresults'[i].ticker = csymbols'[i]
        /\ cpc' = "done" => cidx' = Len(csymbols')
        /\ npc' \in {"loop", "fetch"} => nresults' = SubSeq(nsymbols', 1, nidx')
        /\ npc' = "tick" => nresults' = SubSeq(nsymbols', 1, nidx' + 1)
        /\ npc' = "done" => nresults' = nsymbols' ]_vars

\* a candle run over the active companies has returned two entries: AAPL
\* with rows, then MSFT, whose lookup raised (two companies match it)
C5_Witness ==
    /\ cpc = "done" /\ csymbols = <<"AAPL", "MSFT">>
    /\ cresults[1].ticker = "AAPL" /\ cresults[1].inserted > 0
    /\ cresults[2] = [ticker |-> "MSFT", inserted |-> 0]

\* run_candles_from_json_pipeline's loop over symbols[i..], from table and
\* results
RECURSIVE RunCandles(_, _, _, _, _, _, _)
RunCandlesStep(db, ctable, dir, symbols, i, results, r) ==
    RunCandles(db, ctable, r.table, dir, symbols, i + 1,
               Append(results, [ticker |-> symbols[i], inserted |-> r.inserted]))

RunCandles(db, ctable, table, dir, symbols, i, results) ==
    IF i > Len(symbols) THEN [table |-> table, results |-> results]
    ELSE RunCandlesStep(db, ctable, dir, symbols, i, results,
                        CandleTicker(db, ctable, table, dir, symbols[i]))

\* the ticker's file is missing, or processing it raises
CandleFails(sym) ==
    \/ fs.files[sym].kind = "missing"
    \/ CandleTicker(backend, companies, <<>>, fs.files, sym).failed

CandleIsolation ==
    (cpc = "done" /\ undisturbed) =>
        \A i \in 1..Len(csymbols) :
            CandleFails(csymbols[i]) =>
                /\ cresults[i].inserted = 0
                /\ RunCandles(backend, companies, cstart, fs.files,
                              RemoveAt(csymbols, i), 1, <<>>)
                       = [table |-> candles, results |-> RemoveAt(cresults, i)]

\* C6: a ticker whose file is missing or whose processing raises is reported
\* with inserted 0; when a run returns that no other writer has crossed, the
\* table and the other tickers' entries are those of the run over the
\* universe without that ticker; and no step of the importer removes or
\* changes a row that is stored.
C6_CandleIsolation ==
    /\ [][ /\ (/\ cidx' = cidx + 1
               /\ (clocal'.failed \/ fs.files[csymbols[cidx']].kind = "missing")) =>
                (cresults'[cidx'].inserted = 0 /\ candles' = candles)
           /\ (cpc' # cpc \/ cidx' # cidx) => IsPrefix(candles, candles') ]_vars
    /\ []CandleIsolation

\* a run over <<aapl, AAPL>> has returned: aapl stored its two rows, then
\* AAPL, a list of two records, raised; the two rows are still stored
C6_Witness ==
    /\ cpc = "done" /\ Len(csymbols) = 2
    /\ csymbols[1] = "aapl" /\ csymbols[2] = "AAPL"
    /\ CandleFails("AAPL") /\ fs.files["AAPL"].kind = "list"
    /\ Len(fs.files["AAPL"].data) = 2
    /\ Len(candles) = 2

\* C7: a run that is past its preconditions had its ticker universe, its
\* source folder and the credentials of both external providers.
C7_FatalConfigAborts ==
    /\ cpc \in {"loop", "done"} =>
          (fs.is_dir /\ (cargs.from_companies \/ cargs.tickers # NoTickers))
    /\ npc \in {"loop", "fetch", "tick", "done"} =>
          (env.FINNHUB_API_KEY /\ env.CEREBRAS_API_KEY)

\* the publication epoch of an item: its datetime, or its published value
\* when it has no datetime; 0 when that is missing or no number
ClaimEpoch(it) ==
    CASE it.datetime.t = "int" /\ it.datetime.v # 0 -> it.datetime.v
      [] it.datetime.t = "str" -> 0
      [] it.published.t = "int" -> it.published.v
      [] OTHER -> 0

\* C8: the items retained are min(cap, n) items for a positive integer cap
\* and all n items otherwise; they are items of the list fetched, in
\* descending order of publication epoch (a missing or unparseable one
\* counting as 0), and no item left out has a larger epoch than a retained
\* one; [100, 300, 200] with cap 2 retains [300, 200].
C8_SortAndCap ==
    sout # Pending =>
        /\ Len(sout) = (IF scap.t = "int" /\ scap.v > 0 THEN Min(scap.v, Len(sraw))
                        ELSE Len(sraw))
        /\ \A i, j \in 1..Len(sout) : i < j => ClaimEpoch(sout[i]) >= ClaimEpoch(sout[j])
        /\ \A x \in SortItems : Count(sout, x) <= Count(sraw, x)
        /\ \A x \in SortItems : Count(sout, x) < Count(sraw, x) =>
              \A k \in 1..Len(sout) : ClaimEpoch(sout[k]) >= ClaimEpoch(x)
        /\ (sraw = <<NewsItem("u1", Epoch(100), "h1", "Reuters"),
                     NewsItem("u2", Epoch(300), "h1", "Reuters"),
                     NewsItem("u3", Epoch(200), "h1", "Reuters")>> /\ scap = IntCap(2))
           => sout = <<NewsItem("u2", Epoch(300), "h1", "Reuters"),
                       NewsItem("u3", Epoch(200), "h1", "Reuters")>>

\* [100, 300, 200] with cap 2 has been sorted and limited to [300, 200]
C8_Witness ==
    /\ sraw = <<NewsItem("u1", Epoch(100), "h1", "Reuters"),
                NewsItem("u2", Epoch(300), "h1", "Reuters"),
                NewsItem("u3", Epoch(200), "h1", "Reuters")>>
    /\ scap = IntCap(2)
    /\ sout = <<NewsItem("u2", Epoch(300), "h1", "Reuters"),
                NewsItem("u3", Epoch(200), "h1", "Reuters")>>

\* positions of the retained items without a url, and of those with a url
\* whose headline is no text
Urlless(items) == {k \in 1..Len(items) : Falsy(items[k].url)}
Malformed(items) == {k \in 1..Len(items) : ~Falsy(items[k].url) /\ items[k].headline = NotStr}

\* C9: when an iteration has appended its entry, its skipped counter is the
\* number of retained items without a url (missing or empty), its errors
\* counter counts none of them, news_analysis was called for none of them,
\* every other retained item was classified and built or counted as an
\* error, a ticker that did not fail reports these counters, and no object
\* of the batch and no Article row is without a url.
C9_SkipNotError ==
    /\ \A k \in 1..Len(articles) : ~Falsy(articles[k].url)
    /\ npc = "tick" =>
          /\ nlocal.skipped = Cardinality(Urlless(nlocal.retained))
          /\ nlocal.errors = Cardinality(Malformed(nlocal.retained))
          /\ nlocal.analysed = Len(nlocal.retained) - nlocal.skipped - nlocal.errors
          /\ Len(nlocal.to_create) = nlocal.analysed
          /\ \A k \in 1..Len(nlocal.to_create) : ~Falsy(nlocal.to_create[k].url)
          /\ ~nlocal.failed =>
                (nlocal.entry.skipped = nlocal.skipped /\ nlocal.entry.errors = nlocal.errors)

\* a ticker retained an item without a url ahead of an item with one: the
\* first is skipped, the second is stored
C9_Witness ==
    /\ npc = "tick" /\ ~nlocal.failed
    /\ Len(nlocal.retained) = 2 /\ Falsy(nlocal.retained[1].url)
    /\ nlocal.entry.skipped = 1 /\ nlocal.entry.errors = 0
    /\ Len(nlocal.to_create) = 1
    /\ articles # <<>> /\ articles[Len(articles)] = nlocal.to_create[1]

\* the classifier raises for the headline of a batch object
ClassifierRaises(title) ==
    news_analysis(title, env.CEREBRAS_API_KEY, ProviderReply(title)).raised

\* C10: when an iteration has appended its entry, every retained item with a
\* url and a text headline is in the batch, in order; one for whose headline
\* the classifier raised has the label Neutral; the errors counter counts the
\* malformed items alone; and the batch is persisted as it is without that
\* raise: a committed batch has a row for each object with a publication
\* instant, and a batch fails only on an object without one.
C10_ClassifierFailureNonFatal ==
    npc = "tick" =>
        /\ Len(nlocal.to_create) =
              Len(nlocal.retained) - Cardinality(Urlless(nlocal.retained))
                                   - Cardinality(Malformed(nlocal.retained))
        /\ nlocal.errors = Cardinality(Malformed(nlocal.retained))
        /\ \A k \in 1..Len(nlocal.to_create) :
              /\ ClassifierRaises(nlocal.to_create[k].title) =>
                    nlocal.to_create[k].sentiment_label = "Neutral"
              /\ (~nlocal.failed /\ nlocal.to_create[k].published # NullDt) =>
                    UrlRows(articles, nlocal.to_create[k].url) # {}
        /\ (nlocal.failed /\ nlocal.to_create # <<>>) =>
              \E k \in 1..Len(nlocal.to_create) : nlocal.to_create[k].published = NullDt

\* a committed batch of two objects: the classifier answered for the first
\* and raised for the second, labelled Neutral; both are stored
C10_Witness ==
    /\ npc = "tick" /\ ~nlocal.failed /\ nlocal.entry.errors = 0
    /\ Len(nlocal.to_create) = 2
    /\ env.CEREBRAS_API_KEY
    /\ ClassifierRaises(nlocal.to_create[2].title)
    /\ nlocal.to_create[2].sentiment_label = "Neutral"
    /\ nlocal.to_create[1].sentiment_label = "Negative"
    /\ Len(articles) = 2 /\ articles[1] = nlocal.to_create[1] /\ articles[2] = nlocal.to_create[2]

\* C11: when the provider call has returned, news_analysis does not raise
\* and returns Positive, Neutral or Negative, Neutral when the text
\* extracted is blank or no text is extracted; an empty or blank headline
\* returns Neutral without a provider call.
C11_ClassifierTotality ==
    aout # NotCalled =>
        /\ (Falsy(aargs.headline) \/ StripHeadline(aargs.headline) = "") =>
              aout = NaReturn("Neutral", FALSE)
        /\ (aout.called /\ aargs.reply.kind = "resp") =>
              (~aout.raised /\ aout.label \in Labels)
        /\ (aout.called /\ aargs.reply.kind = "resp" /\ aargs.reply.choices = 0) =>
              aout = NaReturn("Neutral", TRUE)

\* a retained item that has a url and a text headline and whose provider
\* timestamp is missing or not convertible
NoTimestamp(item) ==
    /\ item.kind = "dict" /\ ~Falsy(item.url) /\ item.headline # NotStr
    /\ item.datetime.t # "int"

\* C12: a retained item with a url whose timestamp is missing or not
\* convertible is in the ticker's batch with a null published value, the
\* ticker is not reported as failed, and every object of the batch,
\* that one included, has its url stored.
C12_NullTimestampKeepsItem ==
    npc = "tick" =>
        \A k \in 1..Len(nlocal.retained) :
            NoTimestamp(nlocal.retained[k]) =>
                /\ \E j \in 1..Len(nlocal.to_create) :
                      /\ nlocal.to_create[j].url = nlocal.retained[k].url
                      /\ nlocal.to_create[j].published = NullDt
                /\ ~nlocal.failed
                /\ \A j \in 1..Len(nlocal.to_create) :
                      \E r \in 1..Len(articles) : articles[r].url = nlocal.to_create[j].url

\* C13: a ticker's step either stores every object of its batch whose
\* natural key was not stored before the step, or adds no row at all; and a
\* ticker whose processing raises adds no row and is reported with
\* inserted 0.
C13_BatchAllOrNothing ==
    [][ /\ (job = "news" /\ npc = "fetch" /\ npc' = "tick") =>
              /\ nlocal'.failed => (articles' = articles /\ nlocal'.entry.inserted = 0)
              /\ \/ articles' = articles
                 \/ \A j \in 1..Len(nlocal'.to_create) :
                       ~ArticleConflict(articles, nlocal'.to_create[j]) =>
                           ArticleConflict(articles', nlocal'.to_create[j])
        /\ (job = "candles" /\ cidx' = cidx + 1) =>
              /\ clocal'.failed =>
                    (candles' = candles /\ cresults'[cidx'].inserted = 0)
              /\ \/ candles' = candles
                 \/ \A j \in 1..Len(clocal'.to_create) :
                       ~CandleConflict(candles, clocal'.to_create[j]) =>
                           CandleConflict(candles', clocal'.to_create[j]) ]_vars

\* C14: a ticker for which line 149 finds no company, and on PostgreSQL a
\* ticker whose batch holds a null published value, is a per-ticker failure;
\* a per-ticker failure is reported as exactly inserted 0, skipped 0,
\* errors 1 whatever was counted for its items, its step stores no Article,
\* and the run goes on to the next ticker.
C14_TickerFailureEntry ==
    [][ /\ (npc = "loop" /\ npc' = "fetch") =>
              (ncompany' = 0 <=> IExactIds(companies, nsymbols[nidx + 1]) = {})
        /\ (npc = "fetch" /\ npc' = "tick") =>
              /\ ncompany = 0 => nlocal'.failed
              /\ (backend = "postgresql"
                  /\ \E j \in 1..Len(nlocal'.to_create) :
                        nlocal'.to_create[j].published = NullDt) => nlocal'.failed
              /\ nlocal'.failed =>
                    /\ nlocal'.entry = [ticker |-> nsymbols[nidx + 1], inserted |-> 0,
                                        skipped |-> 0, errors |-> 1]
                    /\ articles' = articles
        /\ (npc = "tick" /\ nlocal.failed /\ npc' # npc) =>
              (npc' = "loop" /\ nidx' = nidx + 1 /\ articles' = articles
               /\ nresults' = nresults /\ nsymbols' = nsymbols) ]_vars

\* the first of two tickers has failed in the store after one of its items
\* was skipped (its company was deleted while the items were fetched): it is
\* reported with skipped 0 and errors 1
C14_Witness ==
    /\ npc = "tick" /\ nlocal.failed /\ nlocal.fetched
    /\ nidx = 0 /\ Len(nsymbols) = 2
    /\ nlocal.skipped = 1 /\ Len(nlocal.to_create) = 1
    /\ nlocal.entry = [ticker |-> nsymbols[1], inserted |-> 0, skipped |-> 0, errors |-> 1]
    /\ articles = <<>>

\* the records of a list that carry a timestamp
RECURSIVE WithTimestamp(_, _)
WithTimestamp(data, i) ==
    IF i > Len(data) THEN <<>>
    ELSE (IF data[i].kind = "dict" /\ data[i].time.tag \in {"absent", "empty"}
          THEN <<>> ELSE <<data[i]>>) \o WithTimestamp(data, i + 1)

\* a file without its records that have no timestamp
Cleaned(f) == IF f.kind = "list" THEN ListFile(WithTimestamp(f.data, 1)) ELSE f

\* a record the importer and the store take: a valid timestamp, prices set
ValidRec(rec) == rec.kind = "dict" /\ rec.time.tag = "iso" /\ rec.open = "num"

\* C15: what a ticker's step stores and reports is what it stores and
\* reports for the file without its records that have no timestamp; and when
\* every other record of the file is valid and the ticker has its company,
\* the ticker is not a failure and the key of every valid record is stored.
C15_TimestamplessRecordsDropped ==
    [][ cidx' = cidx + 1 =>
          /\ \E r \in {CandleFile(backend, companies, candles, csymbols[cidx'],
                                  Cleaned(fs.files[csymbols[cidx']]))} :
                /\ candles' = r.table
                /\ cresults'[cidx'].inserted = r.inserted
          /\ (/\ fs.files[csymbols[cidx']].kind = "list"
              /\ Cardinality(IExactIds(companies, csymbols[cidx'])) = 1
              /\ \A k \in 1..Len(fs.files[csymbols[cidx']].data) :
                    \/ ValidRec(fs.files[csymbols[cidx']].data[k])
                    \/ (/\ fs.files[csymbols[cidx']].data[k].kind = "dict"
                        /\ fs.files[csymbols[cidx']].data[k].time.tag \in {"absent", "empty"}))
             => /\ ~clocal'.failed
                /\ \A k \in 1..Len(fs.files[csymbols[cidx']].data) :
                      ValidRec(fs.files[csymbols[cidx']].data[k]) =>
                          \E c \in 1..Len(candles') :
                              /\ candles'[c].company \in IExactIds(companies, csymbols[cidx'])
                              /\ candles'[c].ts = ParseTs(fs.files[csymbols[cidx']].data[k].time) ]_vars

\* a run over AAPL has returned: the file's first record has no timestamp,
\* its second is valid and is the row stored
C15_Witness ==
    /\ cpc = "done" /\ csymbols = <<"AAPL">>
    /\ fs.files["AAPL"].data = <<CandleRec(AbsentTime, "num"), CandleRec(IsoTime(1, "Z"), "num")>>
    /\ cresults = <<[ticker |-> "AAPL", inserted |-> 1]>>
    /\ candles = <<[company |-> 1, ts |-> 1, open |-> "num"]>>

\* C16: every Article stored, and every object of a ticker's batch, has
\* sentiment_label Positive, Neutral or Negative, whether the classifier
\* returned or raised.
C16_LabelInvariant ==
    /\ \A r \in 1..Len(articles) : articles[r].sentiment_label \in Labels
    /\ \A j \in 1..Len(nlocal.to_create) : nlocal.to_create[j].sentiment_label \in Labels

\* two Articles are stored: one the classifier labelled Negative from the
\* answer "negative.", one for which it raised, labelled Neutral
C16_Witness ==
    /\ env.CEREBRAS_API_KEY
    /\ Len(articles) = 2
    /\ \E r \in 1..2 : articles[r].title = "h3" /\ articles[r].sentiment_label = "Negative"
    /\ \E r \in 1..2 : /\ ClassifierRaises(articles[r].title)
                       /\ articles[r].sentiment_label = "Neutral"

\* C17: for a ticker that is no per-ticker failure, skipped + errors + the
\* size of the batch is the number of items retained, the entry reports these
\* counts, the retained items are at most cap for a positive cap, and the
\* rows the step stores are at most retained - skipped - errors, hence at
\* most cap - skipped - errors.
C17_CounterConservation ==
    [][ (npc = "fetch" /\ npc' = "tick" /\ ~nlocal'.failed) =>
          /\ nlocal'.skipped + nlocal'.errors + Len(nlocal'.to_create) = Len(nlocal'.retained)
          /\ nlocal'.entry.skipped = nlocal'.skipped
          /\ nlocal'.entry.errors = nlocal'.errors
          /\ Len(articles') - Len(articles)
                <= Len(nlocal'.retained) - nlocal'.entry.skipped - nlocal'.entry.errors
          /\ (ncap.t = "int" /\ ncap.v > 0) =>
                /\ Len(nlocal'.retained) <= ncap.v
                /\ Len(articles') - Len(articles)
                      <= ncap.v - nlocal'.entry.skipped - nlocal'.entry.errors ]_vars

\* with cap 1 the one item retained is the most recent one, which has no
\* URL: it is skipped, the batch is empty and nothing is stored
C17_Witness ==
    /\ npc = "tick" /\ ~nlocal.failed /\ nlocal.fetched
    /\ ncap = IntCap(1)
    /\ nlocal.retained = <<NewsItem(None, Epoch(400), "h1", "Reuters")>>
    /\ nlocal.entry.skipped = 1 /\ nlocal.entry.errors = 0 /\ nlocal.entry.inserted = 0
    /\ nlocal.to_create = <<>>
    /\ articles = <<>>

====
